---------------------------- MODULE Spec2Model ----------------------------
(***************************************************************************)
(* A model of src/switch.py: KasaDeviceGUI, a Tkinter front-end that       *)
(* bridges asynchronous device calls (python-kasa) onto one worker thread  *)
(* running an asyncio loop.                                                *)
(*                                                                         *)
(* What is modelled                                                        *)
(*   - the credential loader (_load_credentials_from_env), a pure function *)
(*     of the .env file, with the file as lines of characters;             *)
(*   - the statistics counters (update_statistics), a pure function of the *)
(*     device mapping;                                                     *)
(*   - the application itself: construction and the worker loop, the UI    *)
(*     handlers, the five coroutines (_discover_devices,                   *)
(*     _manual_add_device, _toggle_device, _turn_all_devices,              *)
(*     _refresh_status), the Treeview the rows live in, the status text.   *)
(*                                                                         *)
(* Conventions                                                             *)
(*   - Text is a sequence of one-character strings, so that lower(),       *)
(*     strip(), split() and the substring test are computed, not assumed.  *)
(*   - A coroutine runs atomically between two await points (one asyncio   *)
(*     loop, one worker thread); an awaited library call is answered by    *)
(*     the environment with success or failure (an exception or the        *)
(*     wait_for timeout), in the action that resumes the coroutine.        *)
(*   - Tk calls made by the worker are executed by the Tk interpreter one  *)
(*     handler at a time; a UI handler is one action.                      *)
(*   - The library is not part of the repository: a device object caches   *)
(*     its state, update() refreshes the cache from the device, turn_on()  *)
(*     and turn_off() change the device and not the cache.                 *)
(*   - A messagebox is modal: while one is open neither the UI nor the     *)
(*     worker that opened it goes on; Dismiss closes it.                   *)
(*                                                                         *)
(* Specifications                                                          *)
(*   Spec           the whole application from construction                *)
(*   SpecBridge     construction, the submitting handlers and their        *)
(*                  coroutines, closing; FairBridge adds the fairness of   *)
(*                  the worker loop                                        *)
(*   SpecDiscovery  discovery and manual add over a filtered list          *)
(*   SpecBatch      all-on, all-off and refresh over a filtered list, on   *)
(*                  the large network                                      *)
(*   SpecToggles    toggles over a filtered list, on the large network     *)
(*   SpecRounds     the batch operations while manual adds change the      *)
(*                  mapping                                                *)
(*   SpecToggleDiscovery  toggles while discovery passes replace the       *)
(*                  mapping                                                *)
(*   SpecCred       the credential loader on any bounded .env file         *)
(*   SpecStats      update_statistics on any bounded mapping               *)
(* SpecDiscovery, SpecBatch, SpecToggles, SpecRounds and                   *)
(* SpecToggleDiscovery start from the application at rest after its first  *)
(* discovery pass (AfterDiscovery), a state Spec reaches.                  *)
(***************************************************************************)
EXTENDS Integers, Sequences, FiniteSets, TLC

(***************************************************************************)
(* Bounds of the model.                                                    *)
(***************************************************************************)
\* The specifications run on one of two networks: a small one of MaxAddr
\* devices and a large one with one device more.
MaxAddr == 1

\* The addresses of the small network, and those of the large one; the
\* per-address tables are indexed by ADDRS.
SmallNet == 1..MaxAddr

ADDRS == 1..(MaxAddr + 1)

\* Number of events the user gives the UI in one run (a click, an edit of the
\* search entry, closing the window); the runs that need two devices to act
\* concurrently while the list is filtered get one event more.
MaxEvents == 2

(***************************************************************************)
(* Generic helpers on sequences.                                           *)
(***************************************************************************)
Range(s) == {s[i] : i \in DOMAIN s}

\* All sequences without repetition over the set S (every order of every subset).
RECURSIVE Perms(_)
Perms(S) ==
    {<<>>} \cup UNION {{<<x>> \o p : p \in Perms(S \ {x})} : x \in S}

(***************************************************************************)
(* Text: str.lower(), str.strip(), the `in' substring test, str.join.      *)
(***************************************************************************)
UpperCase == <<"A","B","C","D","E","F","G","H","I","J","K","L","M",
               "N","O","P","Q","R","S","T","U","V","W","X","Y","Z">>
LowerCase == <<"a","b","c","d","e","f","g","h","i","j","k","l","m",
               "n","o","p","q","r","s","t","u","v","w","x","y","z">>

LowerChar(c) ==
    IF \E i \in DOMAIN UpperCase : UpperCase[i] = c
    THEN LowerCase[CHOOSE i \in DOMAIN UpperCase : UpperCase[i] = c]
    ELSE c

\* str.lower()
Lower(t) == [i \in DOMAIN t |-> LowerChar(t[i])]

\* `needle in hay' for Python strings.
Contains(hay, needle) ==
    \E i \in 0..(Len(hay) - Len(needle)) :
        \A j \in 1..Len(needle) : hay[i + j] = needle[j]

\* ' '.join(parts)
RECURSIVE JoinSpace(_)
JoinSpace(parts) ==
    IF Len(parts) = 0 THEN <<>>
    ELSE IF Len(parts) = 1 THEN parts[1]
    ELSE parts[1] \o <<" ">> \o JoinSpace(Tail(parts))


(***************************************************************************)
(* The credential loader, _load_credentials_from_env (lines 107-133).      *)
(***************************************************************************)
\* The characters str.strip() with no argument removes.
WhiteSpace == {" ", "\t"}

\* str.strip(chars): drop the leading and the trailing characters in cs.
RECURSIVE LStripChars(_, _)
LStripChars(t, cs) ==
    IF Len(t) > 0 /\ Head(t) \in cs THEN LStripChars(Tail(t), cs) ELSE t

RECURSIVE RStripChars(_, _)
RStripChars(t, cs) ==
    IF Len(t) > 0 /\ t[Len(t)] \in cs
    THEN RStripChars(SubSeq(t, 1, Len(t) - 1), cs)
    ELSE t

StripChars(t, cs) == RStripChars(LStripChars(t, cs), cs)

\* str.strip()
Strip(t) == StripChars(t, WhiteSpace)

\* str.startswith(c) for a one-character prefix.
StartsWith(t, c) == Len(t) > 0 /\ t[1] = c

\* c in t, for a character.
HasChar(t, c) == \E i \in DOMAIN t : t[i] = c

\* line.split('=', 1): the text before the first '=' and the text after it.
SplitKey(t) == SubSeq(t, 1, (CHOOSE i \in DOMAIN t :
                                t[i] = "=" /\ \A j \in 1..(i - 1) : t[j] # "=") - 1)
SplitValue(t) == SubSeq(t, (CHOOSE i \in DOMAIN t :
                                t[i] = "=" /\ \A j \in 1..(i - 1) : t[j] # "=") + 1,
                        Len(t))

KASA_USERNAME == <<"K","A","S","A","_","U","S","E","R","N","A","M","E">>
KASA_PASSWORD == <<"K","A","S","A","_","P","A","S","S","W","O","R","D">>

\* credentials = {"username": "", "password": ""}   (line 109)
NoCredentials == [username |-> <<>>, password |-> <<>>]

\* value.strip().strip('"').strip("'")   (line 121)
CleanValue(v) == StripChars(StripChars(Strip(v), {"\""}), {"'"})

\* The body of the loop over the file's lines (lines 116-126): the
\* credentials after one more line.
ParseEnvLine(cred, rawLine) ==
    LET line == Strip(rawLine) IN
    IF Len(line) > 0 /\ ~StartsWith(line, "#") /\ HasChar(line, "=")
    THEN LET key   == Strip(SplitKey(line))
             value == CleanValue(SplitValue(line))
         IN IF key = KASA_USERNAME THEN [cred EXCEPT !.username = value]
            ELSE IF key = KASA_PASSWORD THEN [cred EXCEPT !.password = value]
            ELSE cred
    ELSE cred

\* The loop over the first n lines.
RECURSIVE ParseEnvLines(_, _)
ParseEnvLines(lines, n) ==
    IF n = 0 THEN NoCredentials
    ELSE ParseEnvLine(ParseEnvLines(lines, n - 1), lines[n])

\* A file is [exists, lines, failAt]: failAt = 0 when open() raises,
\* i in 1..Len(lines) when the read that would deliver line i raises (an I/O
\* or a decoding error: the lines before it were delivered), and
\* Len(lines) + 1 when the whole file is read.  The try block covers open()
\* and the loop, and the except clause only prints: what was parsed before
\* the error is what is returned.
LoadCredentialsFromEnv(file) ==
    IF ~file.exists THEN NoCredentials
    ELSE IF file.failAt = 0 THEN NoCredentials
    ELSE IF file.failAt <= Len(file.lines)
         THEN ParseEnvLines(file.lines, file.failAt - 1)
    ELSE ParseEnvLines(file.lines, Len(file.lines))


(***************************************************************************)
(* State.                                                                  *)
(***************************************************************************)
VARIABLES
    envFile,      \* the .env file read at construction
    credentials,  \* self.credentials
    credPc,       \* "start" before _load_credentials_from_env ran, "loaded" after
    ui,           \* the UI thread: "init", "waiting" (the poll of lines 407-408),
                  \* "mainloop", "closed"
    threads,      \* number of worker threads started
    loop,         \* self.loop: "none", "set" (published), "running", "stopped"
    stopReq,      \* loop.stop was handed to the loop (cleanup)
    dropped,      \* a submission met "Event loop not available"
    events,       \* number of UI events the user still gives
    devices,      \* self.devices: the addresses, in insertion order
    attr,         \* per address, what the mapped device object answers when its
                  \* attributes are read (its cache)
    rows,         \* the Treeview's attached items, top to bottom
    detached,     \* the Treeview's detached items (they still exist)
    searchVar,    \* self.search_var
    stats,        \* the four counters shown by update_statistics
    status,       \* self.status_var
    alert,        \* the messagebox that is open ("none" if none is)
    tog,          \* per address, the _toggle_device coroutine for it
    bat,          \* the _turn_all_devices / _refresh_status coroutine
    disc,         \* the _discover_devices coroutine
    add           \* the _manual_add_device coroutine

vars == <<envFile, credentials, credPc, ui, threads, loop, stopReq, dropped, events,
          devices, attr, rows, detached, searchVar, stats, status, alert,
          tog, bat, disc, add>>

credVars  == <<envFile, credentials, credPc>>
loopVars  == <<ui, threads, loop, stopReq, dropped>>
devVars   == <<devices, attr>>
treeVars  == <<rows, detached, searchVar, stats>>
taskVars  == <<tog, bat, disc, add>>

(***************************************************************************)
(* Device attributes as the GUI reads them.  Reading an attribute gives    *)
(* "true" or "false", finds no such attribute ("missing": hasattr is       *)
(* False, a plain read raises AttributeError), or raises another exception *)
(* ("raise").                                                              *)
(***************************************************************************)
AttrKinds == {"true", "false", "missing", "raise"}

\* A device object of the library as the program meets it: is_on is a property,
\* the two availability attributes do not exist.
FreshAttr(on) == [is_on |-> on, is_available |-> "missing", available |-> "missing"]

NoAttr == FreshAttr("missing")

\* get_status_display (lines 345-353): "on", "off" or "unknown".
get_status_display(device) ==
    IF device.is_on = "true" THEN "on"
    ELSE IF device.is_on = "false" THEN "off"
    ELSE "unknown"

(***************************************************************************)
(* update_statistics (lines 289-329).                                      *)
(***************************************************************************)
ZeroStats == [total |-> 0, online |-> 0, offline |-> 0, active |-> 0]

\* One pass of the loop body (lines 301-320) over one device.
StatsOfDevice(acc, device) ==
    LET availRaises ==
            \/ device.is_available = "raise"
            \/ device.is_available = "missing" /\ device.available = "raise"
        is_available ==
            IF device.is_available # "missing" THEN device.is_available = "true"
            ELSE IF device.available # "missing" THEN device.available = "true"
            ELSE TRUE
        counted == IF is_available
                   THEN [acc EXCEPT !.online = @ + 1]
                   ELSE [acc EXCEPT !.offline = @ + 1]
    IN IF availRaises THEN [acc EXCEPT !.offline = @ + 1]
       ELSE IF device.is_on = "raise" THEN [counted EXCEPT !.offline = @ + 1]
       ELSE IF device.is_on = "true" THEN [counted EXCEPT !.active = @ + 1]
       ELSE counted

RECURSIVE StatsLoop(_, _, _)
StatsLoop(devs, at, n) ==
    IF n = 0 THEN ZeroStats
    ELSE StatsOfDevice(StatsLoop(devs, at, n - 1), at[devs[n]])

\* The counters the labels are set to (lines 295-329).
update_statistics(devs, at) ==
    LET c == [StatsLoop(devs, at, Len(devs)) EXCEPT !.total = Len(devs)]
    IN IF c.online = 0 /\ c.offline = 0 /\ c.total > 0
       THEN [c EXCEPT !.online = c.total]
       ELSE c


(***************************************************************************)
(* The rows of the Treeview.  A row is [iid, st]: the item id (the         *)
(* address) and the state label it was inserted with; its three column     *)
(* values are a function of the two.                                       *)
(***************************************************************************)
Digits == <<"1", "2", "3", "4", "5", "6", "7", "8", "9">>

\* getattr(device, 'alias', ...): the name the library reports for the device.
Alias(ip) == <<"D", "e", "v", Digits[ip]>>

\* str(device.device_type)
DeviceType(ip) == IF ip % 2 = 1 THEN <<"P", "l", "u", "g">> ELSE <<"B", "u", "l", "b">>

\* get_device_icon (lines 331-343); an icon is one character that is no letter.
get_device_icon(ip) ==
    LET device_type == Lower(DeviceType(ip)) IN
    IF Contains(device_type, <<"p", "l", "u", "g">>) THEN <<"%">>
    ELSE IF \/ Contains(device_type, <<"b", "u", "l", "b">>)
            \/ Contains(device_type, <<"l", "i", "g", "h", "t">>) THEN <<"&">>
    ELSE IF Contains(device_type, <<"s", "w", "i", "t", "c", "h">>) THEN <<"^">>
    ELSE IF Contains(device_type, <<"s", "t", "r", "i", "p">>) THEN <<"~">>
    ELSE <<"$">>

\* The status column text of get_status_display.
StatusText(st) ==
    IF st = "on" THEN <<"+", " ", "O", "N">>
    ELSE IF st = "off" THEN <<"-", " ", "O", "F", "F">>
    ELSE <<"?", " ", "U", "n", "k", "n", "o", "w", "n">>

\* The values tuple of a row (lines 496-500).
RowValues(row) ==
    << get_device_icon(row.iid) \o <<" ">> \o Alias(row.iid),
       StatusText(row.st),
       <<"T", "o", "g", "g", "l", "e">> >>

RowIds(rws) == [i \in DOMAIN rws |-> rws[i].iid]

\* The items the Treeview holds, attached or not.
TreeItems(rws, det) == Range(RowIds(rws)) \cup det

(***************************************************************************)
(* update_device_list (lines 471-512).  get_children() returns the         *)
(* attached items only, so those are the ones deleted; a detached item     *)
(* still exists, and tree.insert with the iid of an existing item raises   *)
(* TclError, in the try block and again in its except block, from where it *)
(* leaves update_device_list before update_statistics.                     *)
(***************************************************************************)
RECURSIVE InsertRows(_, _, _, _)
InsertRows(devs, at, det, acc) ==
    IF Len(devs) = 0 THEN [rows |-> acc, ok |-> TRUE]
    ELSE IF Head(devs) \in TreeItems(acc, det) THEN [rows |-> acc, ok |-> FALSE]
    ELSE InsertRows(Tail(devs), at, det,
                    Append(acc, [iid |-> Head(devs),
                                 st  |-> get_status_display(at[Head(devs)])]))

\* [rows, ok, stats]: the attached rows afterwards, whether it returned (ok) or
\* raised, and the counters.
update_device_list(devs, at, det, oldStats) ==
    LET r == InsertRows(devs, at, det, <<>>) IN
    [rows  |-> r.rows,
     ok    |-> r.ok,
     stats |-> IF r.ok THEN update_statistics(devs, at) ELSE oldStats]

(***************************************************************************)
(* on_search_changed (lines 270-287).                                      *)
(***************************************************************************)
Placeholder == <<"S","e","a","r","c","h"," ","d","e","v","i","c","e","s",".",".",".">>

\* The search term used for a content of the entry (lines 276-278).
SearchTerm(text) ==
    IF Lower(text) = Lower(Placeholder) THEN <<>> ELSE Lower(text)

\* device_text of a row (line 283).
DeviceText(row) ==
    LET v == RowValues(row) IN JoinSpace(<<Lower(v[1]), Lower(v[2]), Lower(v[3])>>)

RemoveItem(rws, iid) == SelectSeq(rws, LAMBDA r : r.iid # iid)

\* The loop over the snapshot get_children() took: a matching item is moved to
\* the end (reattach), any other is detached.
RECURSIVE FilterLoop(_, _, _, _)
FilterLoop(snapshot, term, rws, det) ==
    IF Len(snapshot) = 0 THEN [rows |-> rws, detached |-> det]
    ELSE LET item == Head(snapshot) IN
         IF Contains(DeviceText(item), term)
         THEN FilterLoop(Tail(snapshot), term,
                         Append(RemoveItem(rws, item.iid), item), det)
         ELSE FilterLoop(Tail(snapshot), term,
                         RemoveItem(rws, item.iid), det \cup {item.iid})

on_search_changed(text, rws, det) == FilterLoop(rws, SearchTerm(text), rws, det)


(***************************************************************************)
(* Status texts and alerts.  A status is [kind, act, ok, failed, dev]: the *)
(* message and the values formatted into it (act: "on"/"off", the two      *)
(* counts, the device address or name), "-" or 0 where the message has     *)
(* none.                                                                   *)
(***************************************************************************)
Msg(kind, act, ok, failed, dev) ==
    [kind |-> kind, act |-> act, ok |-> ok, failed |-> failed, dev |-> dev]

Plain(kind) == Msg(kind, "-", 0, 0, 0)

\* Lines 601-604 and 651-654: the closing message of a batch.
BatchMsg(act, ok, failed) ==
    IF act = "refresh"
    THEN IF failed = 0 THEN Msg("RefreshedAll", "-", ok, 0, 0)
         ELSE Msg("RefreshedSome", "-", ok, failed, 0)
    ELSE IF failed = 0 THEN Msg("AllTurned", act, ok, 0, 0)
         ELSE Msg("SomeTurned", act, ok, failed, 0)

(***************************************************************************)
(* The coroutines' records.                                                *)
(***************************************************************************)
\* _toggle_device(ip): pc is "idle", "queued" (submitted, not started), "upd1"
\* (awaiting the first update), "ctl" (awaiting turn_on/turn_off), "upd2"
\* (awaiting the update after the sleep).  stale: the device object it holds is
\* no longer the one mapped at ip.
TogIdle == [pc |-> "idle", act |-> "-", stale |-> FALSE]

\* _turn_all_devices(turn_on) and _refresh_status: pc is "idle", "queued",
\* "round1" (awaiting the control tasks, then the sleep), "round2" (awaiting
\* the update tasks).  todo: the addresses of the control tasks the loop of
\* lines 581-587 has still to await, in order; ctl and upd give each task as
\* "none", "pending", "ok", "fail"; stale: the addresses whose update task works
\* on an object no longer mapped.
NoTasks == [ip \in ADDRS |-> "none"]

BatIdle == [pc |-> "idle", act |-> "-", todo |-> <<>>, ctl |-> NoTasks,
            upd |-> NoTasks, stale |-> {}]

\* _discover_devices: pc is "idle", "queued", "discovering" (awaiting
\* Discover.discover), "probing" (awaiting the update of found[next]),
\* "install" (the last update settled; the coroutine resumes at line 454).
\* found is the dict Discover.discover returned, as its addresses in order;
\* work is working_devices: <<address, is_on answer>> pairs; failed: the
\* addresses whose update raised or timed out.
DiscIdle == [pc |-> "idle", found |-> <<>>, next |-> 0, work |-> <<>>, failed |-> {}]

\* _manual_add_device(ip): pc is "idle", "queued", "connecting" (awaiting
\* discover_single), "updating" (awaiting device.update).
AddIdle == [pc |-> "idle", ip |-> 0]

InMapping(ip, devs) == \E i \in DOMAIN devs : devs[i] = ip

\* What a successful update() leaves readable as is_on: the device's state as
\* it is then (other controllers and the device's own button change it too), or
\* an error when the library cannot produce it.
Readings == {"true", "false", "raise"}

(***************************************************************************)
(* Initial states.                                                         *)
(***************************************************************************)
NoFile == [exists |-> FALSE, lines |-> <<>>, failAt |-> 0]

\* No .env file: __init__ loaded the empty credentials.
NoCredFile ==
    /\ envFile = NoFile
    /\ credentials = LoadCredentialsFromEnv(NoFile)
    /\ credPc = "loaded"

\* No coroutine was submitted.
IdleTasks ==
    /\ tog = [ip \in ADDRS |-> TogIdle]
    /\ bat = BatIdle
    /\ disc = DiscIdle
    /\ add = AddIdle

\* The empty mapping and the empty list of setup_gui.
EmptyList ==
    /\ devices = <<>>
    /\ attr = [ip \in ADDRS |-> NoAttr]
    /\ rows = <<>>
    /\ detached = {}
    /\ searchVar = Placeholder
    /\ stats = ZeroStats
    /\ status = Plain("Ready")
    /\ alert = "none"

\* Before KasaDeviceGUI.__init__ starts its worker.
NotStarted ==
    /\ ui = "init"
    /\ threads = 0
    /\ loop = "none"
    /\ stopReq = FALSE
    /\ dropped = FALSE

\* The worker runs the loop and the UI its main loop.
Started ==
    /\ ui = "mainloop"
    /\ threads = 1
    /\ loop = "running"
    /\ stopReq = FALSE
    /\ dropped = FALSE

\* The application as main() constructs it, with a user who gives `budget'
\* events.
MainInit(budget) ==
    /\ NoCredFile
    /\ NotStarted
    /\ events = budget
    /\ EmptyList
    /\ IdleTasks

\* The first event of a run from construction can only fill the list.
Init == MainInit(MaxEvents + 1)

\* The application at rest after its first discovery pass, which found any of
\* the devices at the addresses S in any order, with a user who gives `budget'
\* more events.
AfterDiscovery(S, budget) ==
    /\ NoCredFile
    /\ Started
    /\ events = budget
    /\ \E d \in Perms(S) : \E rd \in [S -> Readings] :
         LET at == [ip \in ADDRS |->
                       IF InMapping(ip, d) THEN FreshAttr(rd[ip]) ELSE NoAttr]
             r  == update_device_list(d, at, {}, ZeroStats)
         IN /\ devices = d
            /\ attr = at
            /\ rows = r.rows
            /\ stats = r.stats
            /\ status = IF Len(d) > 0 THEN Msg("Found", "-", Len(d), 0, 0)
                        ELSE Plain("NoneFound")
    /\ detached = {}
    /\ searchVar = Placeholder
    /\ alert = "none"
    /\ IdleTasks

(***************************************************************************)
(* The credential loader on its own: any .env file of at most MaxLines     *)
(* lines out of EnvLines, read entirely or up to an error.                 *)
(***************************************************************************)
MaxLines == 2

UserLine == <<"K","A","S","A","_","U","S","E","R","N","A","M","E","=","f","o","o">>
PassLine == <<"K","A","S","A","_","P","A","S","S","W","O","R","D","=","\"","b","a","r"," ","b","a","z","\"">>
BlankLine == <<" "," ">>
CommentLine == <<"#","K","A","S","A","_","U","S","E","R","N","A","M","E","=","n","o">>
BareLine == <<"K","A","S","A","_","P","A","S","S","W","O","R","D">>
SpacedLine == <<" ","K","A","S","A","_","U","S","E","R","N","A","M","E"," ","="," ","'","a","=","b","'"," ">>
EmptyValueLine == <<"K","A","S","A","_","P","A","S","S","W","O","R","D","=">>
OtherLine == <<"H","O","S","T","=","f","o","o">>

EnvLines == {UserLine, PassLine, BlankLine, CommentLine, BareLine, SpacedLine,
             EmptyValueLine, OtherLine}

EnvFiles ==
    {NoFile} \cup
    UNION {{[exists |-> TRUE, lines |-> ls, failAt |-> k] : k \in 0..(n + 1),
                                                            ls \in [1..n -> EnvLines]}
           : n \in 0..MaxLines}

InitCred ==
    /\ envFile \in EnvFiles
    /\ credentials = NoCredentials
    /\ credPc = "start"
    /\ NotStarted
    /\ events = 0
    /\ EmptyList
    /\ IdleTasks

\* self.credentials = self._load_credentials_from_env()
LoadCredentials ==
    /\ credPc = "start"
    /\ credentials' = LoadCredentialsFromEnv(envFile)
    /\ credPc' = "loaded"
    /\ UNCHANGED <<envFile, events, loopVars, devVars, treeVars, status, alert, taskVars>>

SpecCred == InitCred /\ [][LoadCredentials]_vars

(***************************************************************************)
(* update_statistics on its own: any mapping of at most MaxDevs devices    *)
(* whose attributes read as DeviceKinds tells.                             *)
(***************************************************************************)
MaxDevs == 3

\* A device has at most one of the two availability attributes.
DeviceKinds ==
    {d \in [is_on : AttrKinds, is_available : AttrKinds, available : AttrKinds] :
        d.is_available = "missing" \/ d.available = "missing"}

InitStats ==
    /\ NoCredFile
    /\ Started
    /\ events = 0
    /\ \E n \in 0..MaxDevs :
         /\ devices = [i \in 1..n |-> i]
         /\ attr \in [1..n -> DeviceKinds]
    /\ rows = <<>>
    /\ detached = {}
    /\ searchVar = Placeholder
    /\ stats = ZeroStats
    /\ status = Plain("Ready")
    /\ alert = "none"
    /\ IdleTasks

\* self.update_statistics()
UpdateStatistics ==
    /\ stats' = update_statistics(devices, attr)
    /\ status' = Plain("Counted")
    /\ UNCHANGED <<events, credVars, loopVars, devVars, rows, detached, searchVar,
                   alert, taskVars>>

SpecStats == InitStats /\ [][UpdateStatistics]_vars

\* The UI takes an event: the main loop runs and no dialog is open.
UiReady == ui = "mainloop" /\ alert = "none" /\ events > 0

\* A loop that would go on running callbacks after loop.stop.
LoopRunsOn == loop \in {"running", "stopped"} /\ alert = "none"

\* The worker loop runs callbacks: a messagebox opened by a coroutine blocks
\* the worker until it is dismissed.
LoopRuns == loop = "running" /\ alert = "none"

(***************************************************************************)
(* Construction and the worker loop (lines 394-420, 669-681).              *)
(***************************************************************************)
\* Lines 401-403: the thread is created and started.
StartEventLoop ==
    /\ ui = "init"
    /\ ui' = "waiting"
    /\ threads' = threads + 1
    /\ UNCHANGED <<loop, stopReq, dropped>>
    /\ UNCHANGED <<events, credVars, devVars, treeVars, status, alert, taskVars>>

\* Line 397, on the worker: the loop handle is published.
PublishLoop ==
    /\ threads > 0
    /\ loop = "none"
    /\ loop' = "set"
    /\ UNCHANGED <<ui, threads, stopReq, dropped>>
    /\ UNCHANGED <<events, credVars, devVars, treeVars, status, alert, taskVars>>

\* Line 399, on the worker: run_forever.
RunForever ==
    /\ loop = "set"
    /\ loop' = "running"
    /\ UNCHANGED <<ui, threads, stopReq, dropped>>
    /\ UNCHANGED <<events, credVars, devVars, treeVars, status, alert, taskVars>>

\* A constructor that would not poll for the handle.
LoopNotAwaited == TRUE

\* The poll of lines 407-408 ends.
LoopIsSet == loop # "none"

\* Lines 407-408, then setup_gui and root.mainloop().
ConstructionDone ==
    /\ ui = "waiting"
    /\ LoopIsSet
    /\ ui' = "mainloop"
    /\ UNCHANGED <<threads, loop, stopReq, dropped>>
    /\ UNCHANGED <<events, credVars, devVars, treeVars, status, alert, taskVars>>

\* on_closing (lines 675-678): cleanup() hands loop.stop to the loop, then the
\* window is destroyed and the UI takes no more events.
OnClosing ==
    /\ UiReady
    /\ ui' = "closed"
    /\ stopReq' = (stopReq \/ loop # "none")
    /\ UNCHANGED <<threads, loop, dropped>>
    /\ events' = events - 1
    /\ UNCHANGED <<credVars, devVars, treeVars, status, alert, taskVars>>

\* The loop runs the stop callback: run_forever returns and the worker ends.
LoopStops ==
    /\ loop = "running"
    /\ alert = "none"
    /\ stopReq
    /\ loop' = "stopped"
    /\ UNCHANGED <<ui, threads, stopReq, dropped>>
    /\ UNCHANGED <<events, credVars, devVars, treeVars, status, alert, taskVars>>

\* The user closes the open messagebox.
Dismiss ==
    /\ alert # "none"
    /\ alert' = "none"
    /\ UNCHANGED <<events, credVars, loopVars, devVars, treeVars, status, taskVars>>

\* run_async (lines 410-415): whether the coroutine is handed to the loop.
\* The loop is never closed, only stopped.
LoopAvailable == loop # "none"


(***************************************************************************)
(* Effects shared by the coroutines.                                       *)
(***************************************************************************)
\* The coroutines that hold the device object mapped at an address of S lose
\* it when the mapping gets another object there.
StaleTog(t, S) ==
    [ip \in ADDRS |->
        IF ip \in S /\ t[ip].pc \in {"upd1", "ctl", "upd2"}
        THEN [t[ip] EXCEPT !.stale = TRUE]
        ELSE t[ip]]

StaleBat(b, S) ==
    [b EXCEPT !.stale = @ \cup {ip \in S : b.upd[ip] = "pending"}]

\* The cache after update() succeeded on the object a coroutine holds.
Refreshed(at, ip, v, stale) ==
    IF stale THEN at ELSE [at EXCEPT ![ip].is_on = v]

\* self.update_device_list() on the new mapping, then: the closing status if
\* it returned, the operation-wide except clause (status `failStatus', alert
\* `failAlert') if it raised.
RedrawThen(devs, at, okStatus, failStatus, failAlert) ==
    LET r == update_device_list(devs, at, detached, stats) IN
    /\ rows' = r.rows
    /\ stats' = r.stats
    /\ status' = IF r.ok THEN okStatus ELSE failStatus
    /\ alert' = IF r.ok THEN alert ELSE failAlert
    /\ UNCHANGED <<detached, searchVar>>

(***************************************************************************)
(* UI handlers.                                                            *)
(***************************************************************************)
\* What the user may type into the search entry.
Queries == {<<>>, <<"O", "N">>, <<"z", "z">>}

\* The entry is edited: the trace calls on_search_changed.
SearchChanged(q) ==
    /\ UiReady
    /\ events' = events - 1
    /\ LET r == on_search_changed(q, rows, detached) IN
       /\ searchVar' = q
       /\ rows' = r.rows
       /\ detached' = r.detached
    /\ UNCHANGED <<stats, status, alert>>
    /\ UNCHANGED <<credVars, loopVars, devVars, taskVars>>

\* discover_devices (lines 467-469).
DiscoverClick ==
    /\ UiReady
    /\ events' = events - 1
    /\ disc.pc = "idle"
    /\ IF LoopAvailable
       THEN disc' = [disc EXCEPT !.pc = "queued"] /\ UNCHANGED dropped
       ELSE dropped' = TRUE /\ UNCHANGED disc
    /\ UNCHANGED <<ui, threads, loop, stopReq, tog, bat, add>>
    /\ UNCHANGED <<credVars, devVars, treeVars, status, alert>>

\* manual_add_device (lines 355-359) with the address typed.
AddClick(ip) ==
    /\ UiReady
    /\ events' = events - 1
    /\ add.pc = "idle"
    /\ IF LoopAvailable
       THEN add' = [pc |-> "queued", ip |-> ip] /\ UNCHANGED dropped
       ELSE dropped' = TRUE /\ UNCHANGED add
    /\ UNCHANGED <<ui, threads, loop, stopReq, tog, bat, disc>>
    /\ UNCHANGED <<credVars, devVars, treeVars, status, alert>>

\* on_device_double_click (lines 554-560): the selected row is an attached one.
DoubleClick(ip) ==
    /\ UiReady
    /\ events' = events - 1
    /\ tog[ip].pc = "idle"
    /\ ip \in Range(RowIds(rows))
    /\ InMapping(ip, devices)
    /\ IF LoopAvailable
       THEN tog' = [tog EXCEPT ![ip].pc = "queued"] /\ UNCHANGED dropped
       ELSE dropped' = TRUE /\ UNCHANGED tog
    /\ UNCHANGED <<ui, threads, loop, stopReq, bat, disc, add>>
    /\ UNCHANGED <<credVars, devVars, treeVars, status, alert>>

\* turn_all_on, turn_all_off, refresh_status (lines 612-624, 661-666).
BatchClick(act) ==
    /\ UiReady
    /\ events' = events - 1
    /\ bat.pc = "idle"
    /\ IF Len(devices) = 0
       THEN alert' = "No Devices" /\ UNCHANGED <<bat, dropped>>
       ELSE IF LoopAvailable
       THEN bat' = [bat EXCEPT !.pc = "queued", !.act = act]
            /\ UNCHANGED <<alert, dropped>>
       ELSE dropped' = TRUE /\ UNCHANGED <<bat, alert>>
    /\ UNCHANGED <<ui, threads, loop, stopReq, tog, disc, add>>
    /\ UNCHANGED <<credVars, devVars, treeVars, status>>


(***************************************************************************)
(* _discover_devices (lines 422-465).                                      *)
(***************************************************************************)
\* Lines 425-440: the status, then the await of Discover.discover.
DiscStart ==
    /\ LoopRuns
    /\ disc.pc = "queued"
    /\ disc' = [DiscIdle EXCEPT !.pc = "discovering"]
    /\ status' = Plain("Discovering")
    /\ UNCHANGED <<alert, tog, bat, add>>
    /\ UNCHANGED <<events, credVars, loopVars, devVars, treeVars>>

\* A handler of the failure that would drop the devices known so far.
DiscCallFailsForgetting ==
    /\ LoopRuns
    /\ disc.pc = "discovering"
    /\ disc' = DiscIdle
    /\ devices' = <<>>
    /\ status' = Plain("DiscoveryFailed")
    /\ alert' = "Discovery Error"
    /\ UNCHANGED <<attr, tog, bat, add>>
    /\ UNCHANGED <<events, credVars, loopVars, treeVars>>

\* Discover.discover raised: lines 462-465.
DiscCallFails ==
    /\ LoopRuns
    /\ disc.pc = "discovering"
    /\ disc' = DiscIdle
    /\ status' = Plain("DiscoveryFailed")
    /\ alert' = "Discovery Error"
    /\ UNCHANGED <<tog, bat, add>>
    /\ UNCHANGED <<events, credVars, loopVars, devVars, treeVars>>

\* Discover.discover returned the devices `found' (an address -> device dict):
\* the first update is awaited, or with nothing found line 454 is next.
DiscCallReturns(found) ==
    /\ LoopRuns
    /\ disc.pc = "discovering"
    /\ disc' = [disc EXCEPT !.pc = IF Len(found) = 0 THEN "install" ELSE "probing",
                            !.found = found,
                            !.next = IF Len(found) = 0 THEN 0 ELSE 1]
    /\ UNCHANGED <<status, alert, tog, bat, add>>
    /\ UNCHANGED <<events, credVars, loopVars, devVars, treeVars>>

\* The update of found[next] settled (lines 445-452): v is what is_on reads
\* afterwards, or "fail" for an exception or the timeout.  The next device's
\* update is awaited, or after the last one line 454 is next.
DiscProbe(v) ==
    /\ LoopRuns
    /\ disc.pc = "probing"
    /\ v \in Readings \cup {"fail"}
    /\ LET ip   == disc.found[disc.next]
           last == disc.next = Len(disc.found)
       IN disc' = [disc EXCEPT
                     !.pc = IF last THEN "install" ELSE "probing",
                     !.next = IF last THEN 0 ELSE @ + 1,
                     !.work = IF v = "fail" THEN @ ELSE Append(@, <<ip, v>>),
                     !.failed = IF v = "fail" THEN @ \cup {ip} ELSE @]
    /\ UNCHANGED <<status, alert, tog, bat, add>>
    /\ UNCHANGED <<events, credVars, loopVars, devVars, treeVars>>

WorkIps(work) == [i \in DOMAIN work |-> work[i][1]]

WorkAttr(work) ==
    [ip \in ADDRS |->
        IF \E i \in DOMAIN work : work[i][1] = ip
        THEN FreshAttr(work[CHOOSE i \in DOMAIN work : work[i][1] = ip][2])
        ELSE NoAttr]

\* An assignment that would keep the old entries and add the new ones.
MergeDiscovered(old, work) ==
    old \o SelectSeq(WorkIps(work), LAMBDA ip : ~InMapping(ip, old))

\* How the mapping is assigned at line 454.
InstallDiscovered(old, work) == WorkIps(work)

\* Lines 454-460 (and 462-465 if the redraw raises): the mapping is assigned,
\* the list redrawn, the result reported.
DiscInstall ==
    /\ LoopRuns
    /\ disc.pc = "install"
    /\ LET devs == InstallDiscovered(devices, disc.work)
           at   == WorkAttr(disc.work)
       IN /\ devices' = devs
          /\ attr' = at
          /\ RedrawThen(devs, at,
                        IF Len(disc.work) > 0
                        THEN Msg("Found", "-", Len(disc.work), 0, 0)
                        ELSE Plain("NoneFound"),
                        Plain("DiscoveryFailed"), "Discovery Error")
    /\ tog' = StaleTog(tog, ADDRS)
    /\ bat' = StaleBat(bat, ADDRS)
    /\ disc' = DiscIdle
    /\ UNCHANGED add
    /\ UNCHANGED <<events, credVars, loopVars>>

(***************************************************************************)
(* _manual_add_device (lines 361-391).                                     *)
(***************************************************************************)
\* Line 365, then the await of Discover.discover_single.
AddStart ==
    /\ LoopRuns
    /\ add.pc = "queued"
    /\ add' = [add EXCEPT !.pc = "connecting"]
    /\ status' = Msg("Connecting", "-", 0, 0, add.ip)
    /\ UNCHANGED <<alert, tog, bat, disc>>
    /\ UNCHANGED <<events, credVars, loopVars, devVars, treeVars>>

\* discover_single settled: a device, None, or an exception.
AddSingle(outcome) ==
    /\ LoopRuns
    /\ add.pc = "connecting"
    /\ IF outcome = "device"
       THEN add' = [add EXCEPT !.pc = "updating"] /\ UNCHANGED <<status, alert>>
       ELSE IF outcome = "none"
       THEN /\ add' = AddIdle
            /\ status' = Msg("NoDeviceAt", "-", 0, 0, add.ip)
            /\ UNCHANGED alert
       ELSE /\ add' = AddIdle
            /\ status' = Msg("AddFailed", "-", 0, 0, add.ip)
            /\ alert' = "Add Device Error"
    /\ UNCHANGED <<tog, bat, disc>>
    /\ UNCHANGED <<events, credVars, loopVars, devVars, treeVars>>

\* self.devices[ip] = device (line 381): an address already mapped keeps its
\* place, a new one goes last.
AddToMapping(devs, ip) == IF InMapping(ip, devs) THEN devs ELSE Append(devs, ip)

\* device.update() settled (lines 380-383, or 387-391).
AddUpdate(v) ==
    /\ LoopRuns
    /\ add.pc = "updating"
    /\ v \in Readings \cup {"fail"}
    /\ add' = AddIdle
    /\ IF v = "fail"
       THEN /\ status' = Msg("AddFailed", "-", 0, 0, add.ip)
            /\ alert' = "Add Device Error"
            /\ UNCHANGED <<tog, bat, devVars, treeVars>>
       ELSE LET devs == AddToMapping(devices, add.ip)
                at   == [attr EXCEPT ![add.ip] = FreshAttr(v)]
            IN /\ devices' = devs
               /\ attr' = at
               /\ RedrawThen(devs, at,
                             Msg("Added", "-", 0, 0, add.ip),
                             Msg("AddFailed", "-", 0, 0, add.ip),
                             "Add Device Error")
               /\ tog' = StaleTog(tog, {add.ip})
               /\ bat' = StaleBat(bat, {add.ip})
    /\ UNCHANGED disc
    /\ UNCHANGED <<events, credVars, loopVars>>


(***************************************************************************)
(* _toggle_device (lines 514-552).                                         *)
(***************************************************************************)
\* Line 517, then the await of the first update; KeyError goes to lines
\* 548-552.
TogStart(ip) ==
    /\ LoopRuns
    /\ tog[ip].pc = "queued"
    /\ IF InMapping(ip, devices)
       THEN /\ tog' = [tog EXCEPT ![ip] = [TogIdle EXCEPT !.pc = "upd1"]]
            /\ UNCHANGED <<status, alert>>
       ELSE /\ tog' = [tog EXCEPT ![ip] = TogIdle]
            /\ status' = Plain("ToggleError")
            /\ alert' = "Toggle Error"
    /\ UNCHANGED <<bat, disc, add>>
    /\ UNCHANGED <<events, credVars, loopVars, devVars, treeVars>>

\* A toggle that would turn the device on whatever it read.
ToggleAlwaysOn(v) == "on"

\* The control call a toggle issues for what is_on reads (lines 528-533).
ToggleCall(v) == IF v = "true" THEN "off" ELSE "on"

\* The first update settled (lines 520-536).
TogUpd1(ip, v) ==
    /\ LoopRuns
    /\ tog[ip].pc = "upd1"
    /\ v \in Readings \cup {"fail"}
    /\ IF v = "fail"
       THEN /\ tog' = [tog EXCEPT ![ip] = TogIdle]
            /\ status' = Msg("CommError", "-", 0, 0, ip)
            /\ UNCHANGED attr
       ELSE /\ attr' = Refreshed(attr, ip, v, tog[ip].stale)
            /\ IF v = "raise"
               THEN /\ tog' = [tog EXCEPT ![ip] = TogIdle]
                    /\ status' = Plain("ToggleFailed")
               ELSE /\ tog' = [tog EXCEPT ![ip].pc = "ctl", ![ip].act = ToggleCall(v)]
                    /\ UNCHANGED status
    /\ UNCHANGED <<devices, alert, bat, disc, add>>
    /\ UNCHANGED <<events, credVars, loopVars, treeVars>>

\* turn_on / turn_off settled (lines 527-541); the sleep and the second update
\* are awaited next.
TogCtl(ip, ok) ==
    /\ LoopRuns
    /\ tog[ip].pc = "ctl"
    /\ IF ok
       THEN /\ tog' = [tog EXCEPT ![ip].pc = "upd2"]
            /\ status' = Msg("Toggled", tog[ip].act, 0, 0, ip)
       ELSE /\ tog' = [tog EXCEPT ![ip] = TogIdle]
            /\ status' = Plain("ToggleFailed")
    /\ UNCHANGED <<devices, attr, alert, bat, disc, add>>
    /\ UNCHANGED <<events, credVars, loopVars, treeVars>>

\* The second update settled (lines 542-546, or 548-552 if the redraw raises).
TogUpd2(ip, v) ==
    /\ LoopRuns
    /\ tog[ip].pc = "upd2"
    /\ v \in Readings \cup {"fail"}
    /\ LET at == IF v = "fail" THEN attr ELSE Refreshed(attr, ip, v, tog[ip].stale)
       IN /\ attr' = at
          /\ RedrawThen(devices, at, status, Plain("ToggleError"), "Toggle Error")
    /\ tog' = [tog EXCEPT ![ip] = TogIdle]
    /\ UNCHANGED <<devices, bat, disc, add>>
    /\ UNCHANGED <<events, credVars, loopVars>>

(***************************************************************************)
(* _turn_all_devices (lines 562-610) and _refresh_status (lines 626-659).  *)
(***************************************************************************)
\* One task per device of the mapping (lines 571-576, 592-594, 634-636).
TasksFor(devs) == [ip \in ADDRS |-> IF InMapping(ip, devs) THEN "pending" ELSE "none"]

Count(tasks, what) == Cardinality({ip \in ADDRS : tasks[ip] = what})

\* A gather that would return with tasks still pending.
SettledOrNot(tasks) == TRUE

\* Every task of a round is done: the loop of awaits of lines 581-587 is over,
\* or the gather of line 597 returned.
Settled(tasks) == \A ip \in ADDRS : tasks[ip] # "pending"

\* The coroutine starts: the status, then the first round of tasks.
BatStart ==
    /\ LoopRuns
    /\ bat.pc = "queued"
    /\ IF bat.act = "refresh"
       THEN /\ bat' = [bat EXCEPT !.pc = "round2", !.upd = TasksFor(devices)]
            /\ status' = Plain("Refreshing")
       ELSE /\ bat' = [bat EXCEPT !.pc = "round1", !.todo = devices,
                                  !.ctl = TasksFor(devices)]
            /\ status' = Msg("TurningAll", bat.act, 0, 0, 0)
    /\ UNCHANGED <<alert, tog, disc, add>>
    /\ UNCHANGED <<events, credVars, loopVars, devVars, treeVars>>

\* Lines 581-587: the await of the next control task returns (turn_on or
\* turn_off returned) or raises (an exception or the timeout).
BatCtl(ok) ==
    /\ LoopRuns
    /\ bat.pc = "round1"
    /\ Len(bat.todo) > 0
    /\ bat' = [bat EXCEPT !.todo = Tail(@),
                          !.ctl[Head(bat.todo)] = IF ok THEN "ok" ELSE "fail"]
    /\ UNCHANGED <<devices, attr, status, alert, tog, disc, add>>
    /\ UNCHANGED <<events, credVars, loopVars, treeVars>>

\* Lines 589-594: every control task was awaited and counted; after the sleep
\* one update task is created per device of the mapping as it is then.
BatRound1Done ==
    /\ LoopRuns
    /\ bat.pc = "round1"
    /\ Len(bat.todo) = 0
    /\ bat' = [bat EXCEPT !.pc = "round2",
                          !.upd = TasksFor(devices),
                          !.stale = {}]
    /\ UNCHANGED <<status, alert, tog, disc, add>>
    /\ UNCHANGED <<events, credVars, loopVars, devVars, treeVars>>

\* An update task settled.
BatUpd(ip, v) ==
    /\ LoopRuns
    /\ bat.pc = "round2"
    /\ bat.upd[ip] = "pending"
    /\ v \in Readings \cup {"fail"}
    /\ IF v = "fail"
       THEN /\ bat' = [bat EXCEPT !.upd[ip] = "fail", !.stale = @ \ {ip}]
            /\ UNCHANGED attr
       ELSE /\ bat' = [bat EXCEPT !.upd[ip] = "ok", !.stale = @ \ {ip}]
            /\ attr' = Refreshed(attr, ip, v, ip \in bat.stale)
    /\ UNCHANGED <<devices, status, alert, tog, disc, add>>
    /\ UNCHANGED <<events, credVars, loopVars, treeVars>>

\* The counts the closing message is formatted with: those of the control
\* round for all-on/all-off, those of the update round for a refresh.
BatchCounts(b) ==
    IF b.act = "refresh"
    THEN [ok |-> Count(b.upd, "ok"), failed |-> Count(b.upd, "fail")]
    ELSE [ok |-> Count(b.ctl, "ok"), failed |-> Count(b.ctl, "fail")]

\* Lines 597-604 and 649-654 (or the except clauses if the redraw raises).
BatRound2Done ==
    /\ LoopRuns
    /\ bat.pc = "round2"
    /\ Settled(bat.upd)
    /\ LET c == BatchCounts(bat) IN
       RedrawThen(devices, attr, BatchMsg(bat.act, c.ok, c.failed),
                  IF bat.act = "refresh" THEN Plain("RefreshFailed")
                  ELSE Plain("ControlFailed"),
                  IF bat.act = "refresh" THEN "none" ELSE "Control Error")
    /\ bat' = BatIdle
    /\ UNCHANGED <<tog, disc, add>>
    /\ UNCHANGED <<events, credVars, loopVars, devVars>>

(***************************************************************************)
(* The application: its operations, on the devices at the addresses S.     *)
(***************************************************************************)
Construction ==
    \/ StartEventLoop
    \/ PublishLoop
    \/ RunForever
    \/ ConstructionDone

Closing ==
    \/ OnClosing
    \/ LoopStops

Search == \E q \in Queries : SearchChanged(q)

Discovery(S) ==
    \/ DiscoverClick
    \/ DiscStart
    \/ DiscCallFails
    \/ \E found \in Perms(S) : DiscCallReturns(found)
    \/ \E v \in Readings \cup {"fail"} : DiscProbe(v)
    \/ DiscInstall

ManualAdd(S) ==
    \/ \E ip \in S : AddClick(ip)
    \/ AddStart
    \/ \E outcome \in {"device", "none", "fail"} : AddSingle(outcome)
    \/ \E v \in Readings \cup {"fail"} : AddUpdate(v)

Toggle(S) ==
    \/ \E ip \in S : DoubleClick(ip)
    \/ \E ip \in S : TogStart(ip)
    \/ \E ip \in S, v \in Readings \cup {"fail"} : TogUpd1(ip, v)
    \/ \E ip \in S, ok \in BOOLEAN : TogCtl(ip, ok)
    \/ \E ip \in S, v \in Readings \cup {"fail"} : TogUpd2(ip, v)

Batch(S) ==
    \/ \E act \in {"on", "off", "refresh"} : BatchClick(act)
    \/ BatStart
    \/ \E ok \in BOOLEAN : BatCtl(ok)
    \/ BatRound1Done
    \/ \E ip \in S, v \in Readings \cup {"fail"} : BatUpd(ip, v)
    \/ BatRound2Done

Next ==
    \/ Construction
    \/ Closing
    \/ Dismiss
    \/ Search
    \/ Discovery(SmallNet)
    \/ ManualAdd(SmallNet)
    \/ Toggle(SmallNet)
    \/ Batch(SmallNet)

Spec == Init /\ [][Next]_vars

\* The bridge: construction, the submitting handlers and their coroutines,
\* closing.
NextBridge ==
    \/ Construction
    \/ Closing
    \/ Dismiss
    \/ Discovery(SmallNet)
    \/ ManualAdd(SmallNet)
    \/ Toggle(SmallNet)

SpecBridge == MainInit(MaxEvents) /\ [][NextBridge]_vars

\* What the worker thread does: the loop's start and stop and the steps of the
\* coroutines.  The loop runs every callback that is ready, every awaited call
\* returns, raises or is timed out by wait_for, and the user closes a
\* messagebox that is open.
Worker ==
    \/ PublishLoop
    \/ RunForever
    \/ LoopStops
    \/ DiscStart
    \/ DiscCallFails
    \/ \E found \in Perms(SmallNet) : DiscCallReturns(found)
    \/ \E v \in Readings \cup {"fail"} : DiscProbe(v)
    \/ DiscInstall
    \/ AddStart
    \/ \E outcome \in {"device", "none", "fail"} : AddSingle(outcome)
    \/ \E v \in Readings \cup {"fail"} : AddUpdate(v)
    \/ \E ip \in SmallNet : TogStart(ip)
    \/ \E ip \in SmallNet, v \in Readings \cup {"fail"} : TogUpd1(ip, v)
    \/ \E ip \in SmallNet, ok \in BOOLEAN : TogCtl(ip, ok)
    \/ \E ip \in SmallNet, v \in Readings \cup {"fail"} : TogUpd2(ip, v)

FairBridge == SpecBridge /\ WF_vars(Worker) /\ WF_vars(Dismiss) /\ WF_vars(ConstructionDone)

\* Discovery and manual add over a list the user filters.
NextDiscovery ==
    \/ Discovery(SmallNet)
    \/ ManualAdd(SmallNet)
    \/ Search
    \/ Dismiss

SpecDiscovery == AfterDiscovery(SmallNet, MaxEvents) /\ [][NextDiscovery]_vars

\* The batch operations on the large network, over a list the user filters.
NextBatch ==
    \/ Batch(ADDRS)
    \/ Search
    \/ Dismiss

SpecBatch == AfterDiscovery(ADDRS, MaxEvents) /\ [][NextBatch]_vars

\* Toggles on the large network, over a list the user filters.
NextToggles ==
    \/ Toggle(ADDRS)
    \/ Search
    \/ Dismiss

SpecToggles == AfterDiscovery(ADDRS, MaxEvents + 1) /\ [][NextToggles]_vars

\* Toggles while discovery passes replace the mapping under them.
NextToggleDiscovery ==
    \/ Toggle(SmallNet)
    \/ Discovery(SmallNet)
    \/ Dismiss

SpecToggleDiscovery == AfterDiscovery(SmallNet, MaxEvents) /\ [][NextToggleDiscovery]_vars

\* The batch operations while manual adds change the mapping under them.
NextRounds ==
    \/ Batch(SmallNet)
    \/ ManualAdd(SmallNet)
    \/ Dismiss

SpecRounds == AfterDiscovery(SmallNet, MaxEvents) /\ [][NextRounds]_vars

(***************************************************************************)
(* Properties.                                                             *)
(***************************************************************************)

(***************************************************************************)
(* The credential loader (SpecCred).                                       *)
(***************************************************************************)
\* A line that sets a key: not blank, no comment, with an '='.
Effective(l) == Len(Strip(l)) > 0 /\ ~StartsWith(Strip(l), "#") /\ HasChar(l, "=")

KeyOf(l) == Strip(SplitKey(Strip(l)))

\* The value of a line without its surrounding blanks and quotes.
Unquoted(l) == StripChars(Strip(SplitValue(Strip(l))), {"\"", "'"})

\* The value the file gives a key: that of its last line setting it.
Setting(lines, key) ==
    LET S == {i \in DOMAIN lines : Effective(lines[i]) /\ KeyOf(lines[i]) = key}
    IN IF S = {} THEN <<>>
       ELSE Unquoted(lines[CHOOSE i \in S : \A j \in S : j <= i])

\* open() or a read of the file raised.
Unreadable(file) == file.exists /\ file.failAt <= Len(file.lines)

\* C10: the loader returns the pair of empty strings when the file is absent
\* or unreadable, and otherwise the values of the KASA_USERNAME and
\* KASA_PASSWORD lines without their surrounding quotes, ignoring blank lines,
\* comment lines and lines without '='; KASA_USERNAME=foo and
\* KASA_PASSWORD="bar baz" give 'foo' and 'bar baz'.
C10_LoaderContract ==
    credPc = "loaded" =>
        /\ (~envFile.exists \/ Unreadable(envFile)) => credentials = NoCredentials
        /\ (envFile.exists /\ ~Unreadable(envFile)) =>
              /\ credentials.username = Setting(envFile.lines, KASA_USERNAME)
              /\ credentials.password = Setting(envFile.lines, KASA_PASSWORD)
        /\ (envFile.exists /\ ~Unreadable(envFile)
              /\ envFile.lines = <<UserLine, PassLine>>) =>
              /\ credentials.username = <<"f","o","o">>
              /\ credentials.password = <<"b","a","r"," ","b","a","z">>

(***************************************************************************)
(* The statistics counters (SpecStats).                                    *)
(***************************************************************************)
\* The reachability flag of a device: is_available, else available, else
\* "missing".
Flag(d) == IF d.is_available # "missing" THEN d.is_available ELSE d.available

HowMany(P(_)) == Cardinality({i \in DOMAIN devices : P(attr[devices[i]])})

IsOn(d) == d.is_on = "true"

\* A device without a flag is taken as reachable, one whose flag cannot be
\* read as unreachable.
Reachable(d) == Flag(d) \in {"true", "missing"}

Unreachable(d) == Flag(d) \in {"false", "raise"}

NoSignal(d) == Flag(d) = "missing"

\* C6: the counters give total = number of entries, active = number of
\* devices whose on flag is true, online and offline split by the devices'
\* reachability flags, and online = total, offline = 0 when no device carries
\* a reachability signal.
C6_Counters ==
    status = Plain("Counted") =>
        /\ stats.total = Len(devices)
        /\ stats.active = HowMany(IsOn)
        /\ stats.online = HowMany(Reachable)
        /\ stats.offline = HowMany(Unreachable)
        /\ (HowMany(NoSignal) = Len(devices)) =>
              (stats.online = stats.total /\ stats.offline = 0)

(***************************************************************************)
(* The bridge (SpecBridge, FairBridge).                                    *)
(***************************************************************************)
\* A coroutine was handed to the loop and has not finished.
DiscOutstanding == disc.pc # "idle"

AddOutstanding == add.pc # "idle"

TogOutstanding(ip) == tog[ip].pc # "idle"

\* C8: construction starts exactly one worker, the constructor returns only
\* once the loop handle is published, so every submission finds the handle set
\* and none is dropped as 'loop not available'.
C8_LoopPublished ==
    /\ threads <= 1
    /\ ui # "init" => threads = 1
    /\ ui \in {"mainloop", "closed"} => loop # "none"
    /\ (DiscOutstanding \/ AddOutstanding \/ \E ip \in ADDRS : TogOutstanding(ip))
          => loop # "none"
    /\ ~dropped

\* A coroutine was submitted before the worker reached run_forever.
C8_Witness == DiscOutstanding /\ loop = "set" /\ threads = 1 /\ ~dropped

\* C7, as the claim has it: every coroutine submitted through the bridge
\* eventually runs to completion (or times out), closing or not.
C7_AlwaysCompletes ==
    /\ DiscOutstanding ~> ~DiscOutstanding
    /\ AddOutstanding ~> ~AddOutstanding
    /\ \A ip \in SmallNet : TogOutstanding(ip) ~> ~TogOutstanding(ip)

\* C7, amended: a submitted coroutine runs, with no cancellation, until it
\* completes (or times out) or the loop is stopped by closing; once the loop is
\* stopped the coroutines still outstanding stay where they stand.
C7_CompletesUnlessClosed ==
    /\ DiscOutstanding ~> (~DiscOutstanding \/ loop = "stopped")
    /\ AddOutstanding ~> (~AddOutstanding \/ loop = "stopped")
    /\ \A ip \in SmallNet : TogOutstanding(ip) ~> (~TogOutstanding(ip) \/ loop = "stopped")
    /\ [][loop = "stopped" => UNCHANGED taskVars]_vars

\* The loop was stopped with a discovery halfway.
C7_Witness == loop = "stopped" /\ disc.pc \in {"discovering", "probing", "install"}

(***************************************************************************)
(* Discovery (SpecDiscovery).                                              *)
(***************************************************************************)
\* C3: when a discovery pass completes the mapping holds exactly the
\* addresses of the new result whose connectivity update succeeded, nothing
\* of the old mapping is carried over, and an address of the old mapping that
\* is absent from the new one has no row in the list.
C3_MappingReplaced ==
    [][DiscInstall =>
          /\ Range(devices') = Range(disc.found) \ disc.failed
          /\ \A ip \in Range(devices) \ Range(devices') :
                ip \notin Range(RowIds(rows'))]_vars

\* A pass is about to install a result that lacks an address which is mapped
\* and has a row.
C3_Witness ==
    /\ disc.pc = "install"
    /\ \E ip \in Range(devices) :
          /\ ip \in Range(RowIds(rows))
          /\ ip \notin Range(WorkIps(disc.work))

(***************************************************************************)
(* The batch operations (SpecBatch).                                       *)
(***************************************************************************)
\* No coroutine other than the batch is outstanding.
OthersIdle ==
    ~DiscOutstanding /\ ~AddOutstanding /\ \A ip \in ADDRS : ~TogOutstanding(ip)

\* The number of control calls the batch issued: the size of the mapping it
\* ran over.
Issued(b) == Cardinality({ip \in ADDRS : b.ctl[ip] # "none"})

\* C1: a batch all-on/all-off over N devices with nothing else in flight, of
\* whose control calls exactly k failed or timed out, ends with the status
\* reporting N-k devices turned on/off and k failed; the two counts sum to N
\* and the status names no device.
C1_BatchStatus ==
    [][(BatRound2Done /\ bat.act \in {"on", "off"} /\ OthersIdle) =>
          /\ status'.kind \in {"AllTurned", "SomeTurned"}
          /\ status'.act = bat.act
          /\ status'.failed = Count(bat.ctl, "fail")
          /\ status'.ok = Issued(bat) - Count(bat.ctl, "fail")
          /\ status'.ok + status'.failed = Len(devices)
          /\ status'.dev = 0]_vars

\* The state label the list shows for an address ("none" without a row).
Label(rws, ip) ==
    IF \E i \in DOMAIN rws : rws[i].iid = ip
    THEN rws[CHOOSE i \in DOMAIN rws : rws[i].iid = ip].st
    ELSE "none"

\* The devices answered the refresh round as the control round left them: off
\* where the control call succeeded, as displayed where it failed.
SettledAsLeft ==
    \A ip \in ADDRS :
        /\ bat.ctl[ip] = "ok" => attr[ip].is_on = "false"
        /\ bat.ctl[ip] = "fail" => get_status_display(attr[ip]) = Label(rows, ip)

\* C2: after a batch all-off in which one control call timed out and the
\* others succeeded, every device whose call succeeded is displayed as off and
\* the device whose call failed is displayed with the state it was displayed
\* with before.
C2_DisplayedAfterBatch ==
    [][(/\ BatRound2Done
        /\ bat.act = "off"
        /\ Count(bat.ctl, "fail") = 1
        /\ Count(bat.ctl, "ok") >= 1
        /\ SettledAsLeft) =>
          \A ip \in ADDRS :
              /\ bat.ctl[ip] = "ok" => Label(rows', ip) = "off"
              /\ bat.ctl[ip] = "fail" => Label(rows', ip) = Label(rows, ip)]_vars

(***************************************************************************)
(* Toggles (SpecToggles).                                                  *)
(***************************************************************************)
\* C4: of two toggles submitted for two different addresses, however their
\* await points interleave, neither changes the set of addresses of the
\* mapping and neither ends in the unexpected-error path.
C4_TwoToggles ==
    [][\A ip \in ADDRS :
          (/\ TogOutstanding(ip)
           /\ ~TogOutstanding(ip)'
           /\ \E other \in ADDRS \ {ip} : TogOutstanding(other)) =>
              /\ Range(devices') = Range(devices)
              /\ status'.kind # "ToggleError"
              /\ alert' # "Toggle Error"]_vars

(***************************************************************************)
(* The whole application (Spec).                                           *)
(***************************************************************************)
\* The query is contained in the text of no attached row.
NoMatch(q, rws) ==
    \A i \in DOMAIN rws : ~Contains(DeviceText(rws[i]), SearchTerm(q))

\* C5: a query contained in no row's field values hides every row, clearing
\* the query afterwards makes all rows visible again in their insertion
\* order, and filtering never changes the mapping.
C5_SearchFilter ==
    [][\A q \in Queries :
          SearchChanged(q) =>
              /\ devices' = devices
              /\ attr' = attr
              /\ NoMatch(q, rows) => rows' = <<>>
              /\ (q = <<>> /\ TreeItems(rows, detached) = Range(devices)) =>
                    RowIds(rows') = devices]_vars

\* C9: a failure or timeout of the call for one device does not abort a
\* discovery, a refresh or an all-on/all-off: the operation reaches its final
\* redraw and its aggregate status, not its operation-wide error path.
C9_NoAbort ==
    [][/\ (BatRound2Done /\ Count(bat.ctl, "fail") + Count(bat.upd, "fail") > 0) =>
              status'.kind \in {"AllTurned", "SomeTurned", "RefreshedAll", "RefreshedSome"}
       /\ (DiscInstall /\ disc.failed # {}) =>
              status'.kind \in {"Found", "NoneFound"}]_vars

(***************************************************************************)
(* The two rounds of a batch (SpecRounds).                                 *)
(***************************************************************************)
\* The batch running is an all-on or an all-off.
TurningAll == bat.act \in {"on", "off"}

\* No call of a round is still in flight.
AllAnswered(tasks) == \A ip \in ADDRS : tasks[ip] \in {"none", "ok", "fail"}

\* The step issues refresh calls: the second round's tasks come into being.
IssuesRefresh == bat.upd = NoTasks /\ bat'.upd # NoTasks

\* The step is the batch's redraw: the coroutine leaves its second round.
BatchRedraws == bat.pc = "round2" /\ bat'.pc = "idle"

Redraws ==
    \/ DiscInstall
    \/ \E v \in Readings : AddUpdate(v)
    \/ \E ip \in ADDRS, v \in Readings \cup {"fail"} : TogUpd2(ip, v)
    \/ BatRound2Done

\* The step redraws without assigning to the mapping first.
RedrawsOnly ==
    \/ \E ip \in ADDRS, v \in Readings \cup {"fail"} : TogUpd2(ip, v)
    \/ BatRound2Done

\* C12: after any redraw, also in a state where the search filter has hidden
\* rows before, the list holds exactly one row per address of the mapping, in
\* the mapping's insertion order, each with the label on/off/unknown its
\* device's attributes give, and the redraw changes neither the mapping nor a
\* device's state.
C12_RenderingPure ==
    [][/\ Redraws =>
             /\ RowIds(rows') = devices'
             /\ \A i \in DOMAIN rows' :
                   rows'[i].st = get_status_display(attr'[rows'[i].iid])
       /\ RedrawsOnly => devices' = devices
       /\ BatRound2Done => attr' = attr]_vars

(***************************************************************************)
(* A discovery-wide failure (SpecDiscovery).                               *)
(***************************************************************************)
\* The step in which the pass learns that Discover.discover failed: it is the
\* only way from the await of the call to the end of the coroutine.
DiscoveryFails == disc.pc = "discovering" /\ disc'.pc = "idle"

\* The step in which the pass starts, up to the await of the call.
DiscoveryStarts == disc.pc = "queued" /\ disc'.pc = "discovering"

\* The mapping, the devices' state and the list with its counters.
shown == <<devices, attr, rows, detached, stats>>

\* The failure was reported and the user has closed the alert.
FailureDismissed ==
    status = Plain("DiscoveryFailed") /\ alert = "none" /\ disc.pc = "idle"

\* C13: a pass whose discovery call fails leaves the mapping and the rendered
\* list as they were, reports the failure through the status text and an
\* alert, and leaves the application able to run a later pass: the coroutine
\* is over, the loop is untouched, closing the alert changes nothing else, a
\* new pass can be submitted, and a pass that succeeds installs its result.
C13_DiscoveryFailure ==
    /\ [][/\ DiscoveryStarts => UNCHANGED shown
          /\ DiscoveryFails =>
                /\ UNCHANGED shown
                /\ status' = Plain("DiscoveryFailed")
                /\ alert' = "Discovery Error"
                /\ disc' = DiscIdle
                /\ UNCHANGED <<loopVars, tog, bat, add>>
          /\ (alert = "Discovery Error" /\ alert' = "none") =>
                UNCHANGED <<shown, status, loopVars, taskVars>>
          /\ (disc.pc = "install" /\ disc'.pc = "idle" /\ detached = {}) =>
                /\ devices' = WorkIps(disc.work)
                /\ RowIds(rows') = devices'
                /\ status'.kind \in {"Found", "NoneFound"}]_vars
    /\ []((FailureDismissed /\ ui = "mainloop" /\ events > 0) => ENABLED DiscoverClick)
    /\ []((disc.pc = "queued" /\ LoopRuns) => ENABLED DiscStart)

\* After a failed pass over a mapping with its rows shown and the alert
\* closed, a later pass was submitted.
C13_Witness ==
    /\ status = Plain("DiscoveryFailed")
    /\ alert = "none"
    /\ disc.pc = "queued"
    /\ Len(devices) > 0
    /\ RowIds(rows) = devices

(***************************************************************************)
(* The sums of the counters (SpecStats).                                   *)
(***************************************************************************)
\* Reading the device's reachability flag or its on flag raises.
Raising(d) == Flag(d) = "raise" \/ d.is_on = "raise"

\* The devices the claim has counted as offline: the unreachable ones and
\* those with a read that raises.
CountedOffline(d) == Flag(d) = "false" \/ Raising(d)

\* C14: after every run of update_statistics the counters satisfy
\* online + offline = total and active <= total, also when reading a device's
\* reachability or on flag raises: such a device is counted once, as offline.
C14_CountersAddUp ==
    status = Plain("Counted") =>
        /\ stats.online + stats.offline = stats.total
        /\ stats.active <= stats.total
        /\ stats.offline = HowMany(CountedOffline)

(***************************************************************************)
(* The sequence of one toggle (SpecToggleDiscovery).                       *)
(***************************************************************************)
\* The step leaves the list, its counters and the open alert as they are: no
\* redraw and no messagebox.
NoRedraw == UNCHANGED <<rows, detached, stats, alert>>

\* The toggle of ip moves from the await point `from' to `to' ("idle": it
\* ends).
TogMoves(ip, from, to) == tog[ip].pc = from /\ tog'[ip].pc = to

\* What the list is after a redraw of the mapping in the step's end state.
Redrawn == update_device_list(devices', attr', detached, stats).rows

\* The order of the await points of the toggle of ip: the refresh is the
\* first call, a control call is only awaited after a refresh that returned,
\* the follow-up refresh only after a control call that returned, and every
\* other step ends the toggle.
TogOrder(ip) ==
    /\ tog[ip].pc = "queued" =>
          tog'[ip].pc \in {"queued", "upd1"} \/ (tog'[ip].pc = "idle" /\ ~InMapping(ip, devices))
    /\ tog[ip].pc = "upd1" => tog'[ip].pc \in {"upd1", "ctl", "idle"}
    /\ tog[ip].pc = "ctl" => tog'[ip].pc \in {"ctl", "upd2", "idle"}
    /\ tog[ip].pc = "upd2" => tog'[ip].pc \in {"upd2", "idle"}
    /\ tog'[ip].pc = "ctl" => tog[ip].pc \in {"upd1", "ctl"}
    /\ tog'[ip].pc = "upd2" => tog[ip].pc \in {"ctl", "upd2"}

\* The steps of the toggle of ip.
TogSteps(ip) ==
    \* the coroutine starts: no call but the refresh, no redraw
    /\ (TogMoves(ip, "queued", "upd1") \/ TogMoves(ip, "queued", "idle")) =>
          UNCHANGED <<devices, attr, rows, detached, stats>>
    \* the refresh failed or timed out
    /\ TogUpd1(ip, "fail") =>
          /\ tog'[ip].pc = "idle"
          /\ status' = Msg("CommError", "-", 0, 0, ip)
          /\ NoRedraw
          /\ UNCHANGED <<devices, attr>>
    \* the refresh returned: turn_off for a device read as on, turn_on for one
    \* read as off, no call when the state cannot be read
    /\ \A v \in Readings :
          TogUpd1(ip, v) =>
              /\ v = "true" <=> (tog'[ip].pc = "ctl" /\ tog'[ip].act = "off")
              /\ v = "false" <=> (tog'[ip].pc = "ctl" /\ tog'[ip].act = "on")
              /\ ~tog[ip].stale => attr'[ip].is_on = v
              /\ NoRedraw
    \* the control call failed or timed out: no redraw
    /\ TogMoves(ip, "ctl", "idle") =>
          /\ NoRedraw
          /\ status' = Plain("ToggleFailed")
          /\ UNCHANGED <<devices, attr>>
    \* the control call succeeded: the follow-up refresh comes before the redraw
    /\ TogMoves(ip, "ctl", "upd2") =>
          /\ UNCHANGED <<rows, detached, stats, alert, devices, attr>>
          /\ status' = Msg("Toggled", tog[ip].act, 0, 0, ip)
    \* the follow-up refresh settled, failed or not: the redraw
    /\ TogMoves(ip, "upd2", "idle") =>
          /\ rows' = Redrawn
          /\ devices' = devices

\* C15: a toggle first refreshes the device; when that refresh fails or times
\* out it issues no control call, does not redraw and only sets the
\* communication-error status; otherwise it issues turn_off exactly when the
\* refreshed state is on and turn_on exactly when it is off; the list is
\* redrawn by a toggle only after its control call succeeded, whether the
\* follow-up refresh fails or not.
C15_ToggleSequence ==
    [][/\ \A ip \in ADDRS : TogOrder(ip) /\ TogSteps(ip)
       /\ (rows' # rows /\ ~DiscInstall) =>
             \E ip \in ADDRS : TogMoves(ip, "upd2", "idle")]_vars

\* The control call of a toggle succeeded, turn_off for a device read as on,
\* and its follow-up refresh is awaited.
C15_Witness ==
    \E ip \in ADDRS :
        /\ tog[ip].pc = "upd2"
        /\ tog[ip].act = "off"
        /\ status = Msg("Toggled", "off", 0, 0, ip)

=============================================================================
